---- MODULE Spec2Model ----
(***************************************************************************)
(* Model of run.py, the command-line front end of the thesis draft         *)
(* generator: directory bootstrap, instrument parsing, the persisted       *)
(* configuration record (JSON text on disk) and the dispatch of main().    *)
(*                                                                         *)
(* Python strings are sequences of one-character strings.  Python values   *)
(* that travel through json are tagged records [t, v]:                     *)
(*   None -> [t |-> "null"], str -> "str", int -> "int", list -> "list",   *)
(*   dict -> "obj" with v a sequence of <<key, value>> pairs in insertion  *)
(*   order.                                                                *)
(***************************************************************************)
EXTENDS Integers, Sequences, FiniteSets, TLC

VARIABLES
    dirs,     \* the directories that exist under REPO_ROOT
    file,     \* inputs/config.json: [exists, text]
    custom,   \* the file at the path given with --config: [exists, text]
    clock,    \* what datetime.now() returns
    res,      \* the last run of main(): arguments, output, exit status, ...
    origin,   \* who wrote inputs/config.json last: "none", "program", "external"
    fn        \* the function-level harness: inputs and results of direct calls

vars == <<dirs, file, custom, clock, res, origin, fn>>

-----------------------------------------------------------------------------
(* Bounds of the model *)

MaxLen == 3        \* longest argument of parse_instruments drawn freely
MaxThemeLen == 2   \* longest theme of the round trip
MaxInstr == 2      \* longest instrument list of the round trip
MaxClock == 1      \* datetime.now() ranges over 0..MaxClock
MaxCalls == 2      \* direct calls of setup_directories in a row

(* Program constants *)

DefaultSample == 50
ThemeWidth == 56

-----------------------------------------------------------------------------
(* Python values *)

JNull == [t |-> "null", v |-> 0]
JStr(s) == [t |-> "str", v |-> s]
JInt(n) == [t |-> "int", v |-> n]
JList(xs) == [t |-> "list", v |-> xs]
JObj(ps) == [t |-> "obj", v |-> ps]

None == JNull

\* bool(v) for the values of the model
Truthy(v) ==
    CASE v.t = "null" -> FALSE
      [] v.t = "int" -> v.v # 0
      [] OTHER -> v.v # <<>>

HasKey(d, k) == d.t = "obj" /\ \E i \in 1..Len(d.v) : d.v[i][1] = k

\* d[k] for a dict that has the key
GetItem(d, k) == d.v[CHOOSE i \in 1..Len(d.v) : d.v[i][1] = k][2]

\* d.get(k, default)
DictGet(d, k, default) == IF HasKey(d, k) THEN GetItem(d, k) ELSE default

-----------------------------------------------------------------------------
(* String literals of the program *)

K_theme == <<"t", "h", "e", "m", "e">>
K_instruments == <<"i", "n", "s", "t", "r", "u", "m", "e", "n", "t", "s">>
K_sample_size == <<"s", "a", "m", "p", "l", "e", "_", "s", "i", "z", "e">>
K_created == <<"c", "r", "e", "a", "t", "e", "d">>
K_phases == <<"p", "h", "a", "s", "e", "s">>
K_status == <<"s", "t", "a", "t", "u", "s">>
S_pending == <<"p", "e", "n", "d", "i", "n", "g">>
S_unknown == <<"u", "n", "k", "n", "o", "w", "n">>

P_research == <<"r", "e", "s", "e", "a", "r", "c", "h">>
P_feasibility_research ==
    <<"f", "e", "a", "s", "i", "b", "i", "l", "i", "t", "y", "-",
      "r", "e", "s", "e", "a", "r", "c", "h">>
P_simulate == <<"s", "i", "m", "u", "l", "a", "t", "e">>
P_feasibility_data ==
    <<"f", "e", "a", "s", "i", "b", "i", "l", "i", "t", "y", "-", "d", "a", "t", "a">>
P_analyze == <<"a", "n", "a", "l", "y", "z", "e">>
P_write == <<"w", "r", "i", "t", "e">>

PHASES ==
    <<P_research, P_feasibility_research, P_simulate, P_feasibility_data,
      P_analyze, P_write>>

CONFIG_PATH ==
    <<"i", "n", "p", "u", "t", "s", "/", "c", "o", "n", "f", "i", "g", ".",
      "j", "s", "o", "n">>

-----------------------------------------------------------------------------
(* setup_directories *)

D_outputs == "outputs"
D_inputs == "inputs"
D_thesis == "outputs/thesis"
D_chapters == "outputs/thesis/chapters"

AllDirs ==
    {D_outputs, "outputs/research", "outputs/feasibility", "outputs/data",
     "outputs/analysis", D_thesis, D_chapters, D_inputs}

\* The seven directories of the contract (outputs itself is their parent)
ContractDirs == AllDirs \ {D_outputs}

\* The ancestors of a path below REPO_ROOT, nearest last
Parents(p) ==
    CASE p = D_outputs -> <<>>
      [] p = D_inputs -> <<>>
      [] p = D_chapters -> <<D_outputs, D_thesis>>
      [] OTHER -> <<D_outputs>>

Range(s) == {s[i] : i \in 1..Len(s)}

\* A tree a file system can hold: every directory's ancestors exist
TreeClosed(ds) == \A p \in ds : Range(Parents(p)) \subseteq ds

\* Path.mkdir(parents, exist_ok) on tree ds: [dirs, err]
mkdir_no_exist_ok(ds, p, parents) ==
    IF p \in ds
    THEN [dirs |-> ds, err |-> "FileExistsError"]
    ELSE IF Range(Parents(p)) \subseteq ds
         THEN [dirs |-> ds \cup {p}, err |-> "none"]
         ELSE IF parents
              THEN [dirs |-> ds \cup Range(Parents(p)) \cup {p}, err |-> "none"]
              ELSE [dirs |-> ds, err |-> "FileNotFoundError"]

mkdir(ds, p, parents) ==
    IF p \in ds
    THEN [dirs |-> ds, err |-> "none"]
    ELSE IF Range(Parents(p)) \subseteq ds
         THEN [dirs |-> ds \cup {p}, err |-> "none"]
         ELSE IF parents
              THEN [dirs |-> ds \cup Range(Parents(p)) \cup {p}, err |-> "none"]
              ELSE [dirs |-> ds, err |-> "FileNotFoundError"]

\* The subdirectories of the loop, in its order
OutputSubdirs ==
    <<"outputs/research", "outputs/feasibility", "outputs/data",
      "outputs/analysis", D_chapters>>

RECURSIVE MkdirAll(_, _)
\* The loop over the output subdirectories from index i: stops at an error
MkdirAll(st, i) ==
    IF st.err # "none" \/ i > Len(OutputSubdirs)
    THEN st
    ELSE MkdirAll(mkdir(st.dirs, OutputSubdirs[i], TRUE), i + 1)

setup_directories(ds) ==
    LET outs == MkdirAll([dirs |-> ds, err |-> "none"], 1)
    IN  IF outs.err # "none" THEN outs ELSE mkdir(outs.dirs, D_inputs, FALSE)

-----------------------------------------------------------------------------
(* parse_instruments *)

Whitespace == {" ", "\t", "\n"}

RECURSIVE lstrip(_)
lstrip(s) ==
    IF s # <<>> /\ Head(s) \in Whitespace THEN lstrip(Tail(s)) ELSE s

RECURSIVE rstrip(_)
rstrip(s) ==
    IF s # <<>> /\ s[Len(s)] \in Whitespace
    THEN rstrip(SubSeq(s, 1, Len(s) - 1))
    ELSE s

\* str.strip()
strip(s) == rstrip(lstrip(s))

RECURSIVE SplitFrom(_, _, _, _)
SplitFrom(s, i, cur, acc) ==
    IF i > Len(s)
    THEN Append(acc, cur)
    ELSE IF s[i] = ","
         THEN SplitFrom(s, i + 1, <<>>, Append(acc, cur))
         ELSE SplitFrom(s, i + 1, Append(cur, s[i]), acc)

\* str.split(",")
split(s) == SplitFrom(s, 1, <<>>, <<>>)

\* A plausible slip: empty tokens are filtered out
parse_instruments_nonempty(instruments_str) ==
    LET parts == split(instruments_str)
    IN  SelectSeq([i \in 1..Len(parts) |-> strip(parts[i])], LAMBDA t : t # <<>>)

parse_instruments(instruments_str) ==
    LET parts == split(instruments_str)
    IN  [i \in 1..Len(parts) |-> strip(parts[i])]

-----------------------------------------------------------------------------
(* json.dump(obj, f, indent=2) *)

Digits == <<"0", "1", "2", "3", "4", "5", "6", "7", "8", "9">>

RECURSIVE NatRepr(_)
NatRepr(n) ==
    IF n < 10 THEN <<Digits[n + 1]>> ELSE NatRepr(n \div 10) \o <<Digits[(n % 10) + 1]>>

\* int.__repr__
IntRepr(n) == IF n < 0 THEN <<"-">> \o NatRepr(-n) ELSE NatRepr(n)

\* The one character outside ASCII the model draws: U+00E9
NonAscii == "U+00E9"

\* A plausible slip: the quote and the backslash go out unescaped
EscapeChar_raw(c) ==
    CASE c = "\n" -> <<"\\", "n">>
      [] c = "\t" -> <<"\\", "t">>
      [] c = NonAscii -> <<"\\", "u", "0", "0", "e", "9">>
      [] OTHER -> <<c>>

\* One character of py_encode_basestring_ascii (ensure_ascii is the default)
EscapeChar(c) ==
    CASE c = "\"" -> <<"\\", "\"">>
      [] c = "\\" -> <<"\\", "\\">>
      [] c = "\n" -> <<"\\", "n">>
      [] c = "\t" -> <<"\\", "t">>
      [] c = NonAscii -> <<"\\", "u", "0", "0", "e", "9">>
      [] OTHER -> <<c>>

RECURSIVE EscapeFrom(_, _)
EscapeFrom(s, i) ==
    IF i > Len(s) THEN <<>> ELSE EscapeChar(s[i]) \o EscapeFrom(s, i + 1)

EncodeStr(s) == <<"\"">> \o EscapeFrom(s, 1) \o <<"\"">>

\* A new line and the indentation of nesting level k (indent=2)
NewlineIndent(k) == <<"\n">> \o [i \in 1..(2 * k) |-> " "]

RECURSIVE Encode(_, _)
RECURSIVE EncodeItems(_, _, _)
RECURSIVE EncodePairs(_, _, _)

EncodeItems(xs, k, i) ==
    NewlineIndent(k) \o Encode(xs[i], k)
        \o (IF i < Len(xs) THEN <<",">> \o EncodeItems(xs, k, i + 1) ELSE <<>>)

EncodePairs(ps, k, i) ==
    NewlineIndent(k) \o EncodeStr(ps[i][1]) \o <<":", " ">> \o Encode(ps[i][2], k)
        \o (IF i < Len(ps) THEN <<",">> \o EncodePairs(ps, k, i + 1) ELSE <<>>)

\* The text of value v at nesting level k
Encode(v, k) ==
    CASE v.t = "null" -> <<"n", "u", "l", "l">>
      [] v.t = "str" -> EncodeStr(v.v)
      [] v.t = "int" -> IntRepr(v.v)
      [] v.t = "list" ->
            IF v.v = <<>>
            THEN <<"[", "]">>
            ELSE <<"[">> \o EncodeItems(v.v, k + 1, 1) \o NewlineIndent(k) \o <<"]">>
      [] v.t = "obj" ->
            IF v.v = <<>>
            THEN <<"{", "}">>
            ELSE <<"{">> \o EncodePairs(v.v, k + 1, 1) \o NewlineIndent(k) \o <<"}">>

json_dump(v) == Encode(v, 0)

-----------------------------------------------------------------------------
(* json.load(f) *)

JsonWs == {" ", "\t", "\n", "\r"}

Fail == [ok |-> FALSE, v |-> JNull, i |-> 0]
Done(v, i) == [ok |-> TRUE, v |-> v, i |-> i]

RECURSIVE SkipWs(_, _)
SkipWs(s, i) == IF i <= Len(s) /\ s[i] \in JsonWs THEN SkipWs(s, i + 1) ELSE i

DigitValue(c) == CHOOSE d \in 0..9 : Digits[d + 1] = c
IsDigit(c) == \E d \in 0..9 : Digits[d + 1] = c

RECURSIVE ScanDigits(_, _, _)
\* The run of digits from i, as [n, i]
ScanDigits(s, i, n) ==
    IF i <= Len(s) /\ IsDigit(s[i])
    THEN ScanDigits(s, i + 1, 10 * n + DigitValue(s[i]))
    ELSE [n |-> n, i |-> i]

\* NUMBER_RE: -?(0|[1-9]\d*), integers only
ScanNumber(s, i) ==
    LET neg == s[i] = "-"
        j == IF neg THEN i + 1 ELSE i
    IN  IF j > Len(s) \/ ~IsDigit(s[j])
        THEN Fail
        ELSE IF s[j] = "0"
             THEN Done(JInt(0), j + 1)
             ELSE LET r == ScanDigits(s, j, 0)
                  IN  Done(JInt(IF neg THEN -r.n ELSE r.n), r.i)

RECURSIVE ScanString(_, _, _)
\* py_scanstring: i is the index after the opening quote
ScanString(s, i, acc) ==
    IF i > Len(s)
    THEN Fail
    ELSE CASE s[i] = "\"" -> Done(JStr(acc), i + 1)
           [] s[i] \in {"\n", "\t"} -> Fail
           [] s[i] = "\\" ->
                IF i + 1 > Len(s)
                THEN Fail
                ELSE CASE s[i + 1] \in {"\"", "\\", "/"} ->
                            ScanString(s, i + 2, Append(acc, s[i + 1]))
                       [] s[i + 1] = "n" -> ScanString(s, i + 2, Append(acc, "\n"))
                       [] s[i + 1] = "t" -> ScanString(s, i + 2, Append(acc, "\t"))
                       [] s[i + 1] = "u" ->
                            IF i + 5 <= Len(s)
                               /\ SubSeq(s, i + 2, i + 5) = <<"0", "0", "e", "9">>
                            THEN ScanString(s, i + 6, Append(acc, NonAscii))
                            ELSE Fail
                       [] OTHER -> Fail
           [] OTHER -> ScanString(s, i + 1, Append(acc, s[i]))

RECURSIVE ScanOnce(_, _)
RECURSIVE ScanArray(_, _, _)
RECURSIVE ScanObject(_, _, _)

\* JSONArray after a value has to follow: i is at the value
ScanArray(s, i, acc) ==
    LET r == ScanOnce(s, i)
        j == SkipWs(s, r.i)
    IN  IF ~r.ok \/ j > Len(s)
        THEN Fail
        ELSE CASE s[j] = "]" -> Done(JList(Append(acc, r.v)), j + 1)
               [] s[j] = "," -> ScanArray(s, SkipWs(s, j + 1), Append(acc, r.v))
               [] OTHER -> Fail

\* JSONObject: i is at the opening quote of a key
ScanObject(s, i, acc) ==
    IF i > Len(s) \/ s[i] # "\""
    THEN Fail
    ELSE LET key == ScanString(s, i + 1, <<>>)
             c == SkipWs(s, key.i)
         IN  IF ~key.ok \/ c > Len(s) \/ s[c] # ":"
             THEN Fail
             ELSE LET r == ScanOnce(s, SkipWs(s, c + 1))
                      j == SkipWs(s, r.i)
                      ps == Append(acc, <<key.v.v, r.v>>)
                  IN  IF ~r.ok \/ j > Len(s)
                      THEN Fail
                      ELSE CASE s[j] = "}" -> Done(JObj(ps), j + 1)
                             [] s[j] = "," -> ScanObject(s, SkipWs(s, j + 1), ps)
                             [] OTHER -> Fail

\* scan_once: the value that starts at i
ScanOnce(s, i) ==
    IF i > Len(s)
    THEN Fail
    ELSE CASE s[i] = "\"" -> ScanString(s, i + 1, <<>>)
           [] s[i] = "{" ->
                LET j == SkipWs(s, i + 1)
                IN  IF j <= Len(s) /\ s[j] = "}"
                    THEN Done(JObj(<<>>), j + 1)
                    ELSE ScanObject(s, j, <<>>)
           [] s[i] = "[" ->
                LET j == SkipWs(s, i + 1)
                IN  IF j <= Len(s) /\ s[j] = "]"
                    THEN Done(JList(<<>>), j + 1)
                    ELSE ScanArray(s, j, <<>>)
           [] s[i] = "n" ->
                IF i + 3 <= Len(s) /\ SubSeq(s, i, i + 3) = <<"n", "u", "l", "l">>
                THEN Done(JNull, i + 4)
                ELSE Fail
           [] s[i] = "-" \/ IsDigit(s[i]) -> ScanNumber(s, i)
           [] OTHER -> Fail

\* json.loads: one value, then only whitespace; ok = FALSE is JSONDecodeError
json_load(text) ==
    LET r == ScanOnce(text, SkipWs(text, 1))
    IN  IF r.ok /\ SkipWs(text, r.i) = Len(text) + 1 THEN r ELSE Fail

-----------------------------------------------------------------------------
(* create_config, save_config, load_config *)

\* datetime.isoformat() of the clock reading c
isoformat(c) ==
    <<"2", "0", "2", "6", "-", "0", "1", "-", "0", "1", "T", "0", "0", ":",
      "0", "0", ":">> \o (IF c < 10 THEN <<"0">> ELSE <<>>) \o NatRepr(c)

PhaseEntry(phase, status) == <<phase, JObj(<< <<K_status, JStr(status)>> >>)>>

\* A plausible slip: the last phase is left out of the map
create_config_short(theme, instruments, sample_size, now) ==
    JObj(<< <<K_theme, JStr(theme)>>,
            <<K_instruments, JList([i \in 1..Len(instruments) |-> JStr(instruments[i])])>>,
            <<K_sample_size, JInt(sample_size)>>,
            <<K_created, JStr(isoformat(now))>>,
            <<K_phases,
              JObj([i \in 1..(Len(PHASES) - 1) |-> PhaseEntry(PHASES[i], S_pending)])>> >>)

create_config(theme, instruments, sample_size, now) ==
    JObj(<< <<K_theme, JStr(theme)>>,
            <<K_instruments, JList([i \in 1..Len(instruments) |-> JStr(instruments[i])])>>,
            <<K_sample_size, JInt(sample_size)>>,
            <<K_created, JStr(isoformat(now))>>,
            <<K_phases, JObj([i \in 1..Len(PHASES) |-> PhaseEntry(PHASES[i], S_pending)])>> >>)

Absent == [exists |-> FALSE, text |-> <<>>]
Present(text) == [exists |-> TRUE, text |-> text]

\* The file save_config leaves at inputs/config.json
save_config(config) == Present(json_dump(config))

\* load_config on file f: the record, or the exception raised
load_config(f) ==
    IF ~f.exists
    THEN [exc |-> "FileNotFoundError", v |-> None]
    ELSE LET r == json_load(f.text)
         IN  IF r.ok
             THEN [exc |-> "none", v |-> r.v]
             ELSE [exc |-> "JSONDecodeError", v |-> None]

-----------------------------------------------------------------------------
(* print_phase_instructions, print_full_workflow, the status block *)

Line(msg, arg) == [msg |-> msg, arg |-> arg]

\* The heading of each block of the instructions table
PhaseTitle(phase) ==
    CASE phase = P_research -> "PHASE 1: RESEARCH"
      [] phase = P_feasibility_research -> "PHASE 2: FEASIBILITY - RESEARCH DIRECTION"
      [] phase = P_simulate -> "PHASE 3: DATA SIMULATION"
      [] phase = P_feasibility_data -> "PHASE 4: FEASIBILITY - DATA VALIDATION"
      [] phase = P_analyze -> "PHASE 5: DATA ANALYSIS"
      [] phase = P_write -> "PHASE 6: THESIS WRITING"

IsPhase(name) == \E i \in 1..Len(PHASES) : PHASES[i] = name

\* instructions.get(phase, f"Unknown phase: {phase}"): the lines printed
print_phase_instructions(phase) ==
    IF IsPhase(phase)
    THEN <<Line(PhaseTitle(phase), JStr(phase))>>
    ELSE <<Line("Unknown phase:", JStr(phase))>>

RECURSIVE JoinFrom(_, _, _)
JoinFrom(xs, sep, i) ==
    IF i > Len(xs)
    THEN <<>>
    ELSE xs[i].v \o (IF i < Len(xs) THEN sep ELSE <<>>) \o JoinFrom(xs, sep, i + 1)

\* ', '.join(list of str)
Join(xs) == JoinFrom(xs, <<",", " ">>, 1)

\* s[:n]
Take(s, n) == SubSeq(s, 1, IF Len(s) < n THEN Len(s) ELSE n)

\* What subscripting config with the three keys raises, if anything
SubscriptError(config) ==
    IF config.t # "obj"
    THEN "TypeError"
    ELSE IF HasKey(config, K_theme) /\ HasKey(config, K_instruments)
            /\ HasKey(config, K_sample_size)
         THEN "none"
         ELSE "KeyError"

\* print_full_workflow(config): [exc, out]
print_full_workflow(config) ==
    IF SubscriptError(config) # "none"
    THEN [exc |-> SubscriptError(config), out |-> <<>>]
    ELSE [exc |-> "none",
          out |-> <<Line("THESIS DRAFT GENERATOR",
                         JList(<<JStr(Take(GetItem(config, K_theme).v, ThemeWidth)),
                                 JStr(Join(GetItem(config, K_instruments).v)),
                                 GetItem(config, K_sample_size)>>))>>]

\* One row of the phase status table: marker, phase, status
StatusRow(config, phase) ==
    LET status == DictGet(DictGet(DictGet(config, K_phases, JObj(<<>>)),
                                  phase, JObj(<<>>)),
                          K_status, JStr(S_unknown))
        marker == IF status = JStr(S_pending) THEN <<" ", " ">> ELSE <<"*", " ">>
    IN  JList(<<JStr(marker), JStr(phase), status>>)

\* The branch of main() for --status: [exc, out]
print_status(config) ==
    IF Truthy(config)
    THEN IF SubscriptError(config) # "none"
         THEN [exc |-> SubscriptError(config), out |-> <<Line("Current configuration:", None)>>]
         ELSE [exc |-> "none",
               out |-> <<Line("Current configuration:",
                              JList(<<GetItem(config, K_theme),
                                      JStr(Join(GetItem(config, K_instruments).v)),
                                      GetItem(config, K_sample_size)>>)),
                         Line("Phase status:",
                              JList([i \in 1..Len(PHASES) |-> StatusRow(config, PHASES[i])]))>>]
    ELSE [exc |-> "none",
          out |-> <<Line("No configuration found. Initialize with --theme and --instruments.",
                         None)>>]

-----------------------------------------------------------------------------
(* main() *)

CUSTOM_PATH == <<"c", "u", "s", "t", "o", "m", ".", "j", "s", "o", "n">>

Call(name, arg) == [fn |-> name, arg |-> arg]

\* A plausible slip: --phase takes any string (no choices=PHASES)
parse_args_any(a) == [ok |-> TRUE, out |-> <<>>]

\* parser.parse_args(): --phase is restricted to choices=PHASES
parse_args(a) ==
    IF a.phase = None \/ IsPhase(a.phase.v)
    THEN [ok |-> TRUE, out |-> <<>>]
    ELSE [ok |-> FALSE,
          out |-> <<Line("error: argument --phase: invalid choice:", a.phase)>>]

Configured(go, exc, config, f, out, consulted, wrote) ==
    [go |-> go, exc |-> exc, config |-> config, file |-> f, out |-> out,
     consulted |-> consulted, wrote |-> wrote]

\* A plausible slip: the phases of the record on disk are carried over
UseCreated_merge(a, f, now) ==
    LET fresh == create_config(a.theme.v, parse_instruments(a.instruments.v), a.sample, now)
        old == load_config(f)
        config == IF old.exc = "none" /\ HasKey(old.v, K_phases)
                  THEN JObj([i \in 1..Len(fresh.v) |->
                                IF fresh.v[i][1] = K_phases
                                THEN <<K_phases, GetItem(old.v, K_phases)>>
                                ELSE fresh.v[i]])
                  ELSE fresh
    IN  Configured(TRUE, "none", config, save_config(config),
                   <<Line("Configuration saved to", JStr(CONFIG_PATH))>>, {}, <<config>>)

\* if args.theme and args.instruments: parse, create, save
UseCreated(a, f, now) ==
    LET instruments == parse_instruments(a.instruments.v)
        config == create_config(a.theme.v, instruments, a.sample, now)
    IN  Configured(TRUE, "none", config, save_config(config),
                   <<Line("Configuration saved to", JStr(CONFIG_PATH))>>, {}, <<config>>)

\* elif args.config: open(args.config), json.load
UseCustom(a, f, cust) ==
    IF ~cust.exists
    THEN Configured(FALSE, "FileNotFoundError", None, f, <<>>, {a.config.v}, <<>>)
    ELSE LET r == json_load(cust.text)
         IN  IF r.ok
             THEN Configured(TRUE, "none", r.v, f, <<>>, {a.config.v}, <<>>)
             ELSE Configured(FALSE, "JSONDecodeError", None, f, <<>>, {a.config.v}, <<>>)

\* A plausible slip: a missing file never ends the run
UseDefault_lenient(a, f) ==
    LET r == load_config(f)
    IN  CASE r.exc = "none" -> Configured(TRUE, "none", r.v, f, <<>>, {CONFIG_PATH}, <<>>)
          [] r.exc = "FileNotFoundError" ->
                Configured(TRUE, "none", None, f, <<>>, {CONFIG_PATH}, <<>>)
          [] OTHER -> Configured(FALSE, r.exc, None, f, <<>>, {CONFIG_PATH}, <<>>)

\* else: load_config(), with FileNotFoundError caught
UseDefault(a, f) ==
    LET r == load_config(f)
    IN  CASE r.exc = "none" -> Configured(TRUE, "none", r.v, f, <<>>, {CONFIG_PATH}, <<>>)
          [] r.exc = "FileNotFoundError" ->
                IF ~a.status
                THEN Configured(FALSE, "SystemExit", None, f,
                        <<Line("Error: No configuration found at", JStr(CONFIG_PATH)),
                          Line("Run with --theme and --instruments to initialize:", None)>>,
                        {CONFIG_PATH}, <<>>)
                ELSE Configured(TRUE, "none", None, f, <<>>, {CONFIG_PATH}, <<>>)
          [] OTHER -> Configured(FALSE, r.exc, None, f, <<>>, {CONFIG_PATH}, <<>>)

\* A plausible slip: the default file is read whenever it exists
HandleConfiguration_default(a, f, cust, now) ==
    IF Truthy(a.theme) /\ Truthy(a.instruments)
    THEN UseCreated(a, f, now)
    ELSE IF Truthy(a.config) /\ ~f.exists
         THEN UseCustom(a, f, cust)
         ELSE UseDefault(a, f)

\* The "Handle configuration" block of main()
HandleConfiguration(a, f, cust, now) ==
    IF Truthy(a.theme) /\ Truthy(a.instruments)
    THEN UseCreated(a, f, now)
    ELSE IF Truthy(a.config)
         THEN UseCustom(a, f, cust)
         ELSE UseDefault(a, f)

Acted(exc, out, calls) == [exc |-> exc, out |-> out, calls |-> calls]

\* A plausible slip: the overview is printed for --full alone
ExecuteAction_full_only(a, config) ==
    IF a.status
    THEN LET r == print_status(config) IN Acted(r.exc, r.out, <<>>)
    ELSE IF Truthy(a.phase)
         THEN Acted("none", print_phase_instructions(a.phase.v),
                    <<Call("print_phase_instructions", a.phase)>>)
         ELSE IF a.full
              THEN LET r == print_full_workflow(config)
                   IN  Acted(r.exc, r.out, <<Call("print_full_workflow", config)>>)
              ELSE Acted("none", <<Line("usage: run.py [-h]", None)>>,
                         <<Call("print_help", None)>>)

\* The "Execute requested action" block of main()
ExecuteAction(a, config) ==
    IF a.status
    THEN LET r == print_status(config) IN Acted(r.exc, r.out, <<>>)
    ELSE IF Truthy(a.phase)
         THEN Acted("none", print_phase_instructions(a.phase.v),
                    <<Call("print_phase_instructions", a.phase)>>)
         ELSE IF a.full \/ Truthy(config)
              THEN LET r == print_full_workflow(config)
                   IN  Acted(r.exc,
                             IF r.exc = "none"
                             THEN r.out \o <<Line("To execute a phase, run:",
                                                  JList([i \in 1..Len(PHASES) |-> JStr(PHASES[i])]))>>
                             ELSE r.out,
                             <<Call("print_full_workflow", config)>>)
              ELSE Acted("none", <<Line("usage: run.py [-h]", None)>>,
                         <<Call("print_help", None)>>)

Outcome(stage, exit, exc, ds, f, out, config, calls, consulted, wrote) ==
    [stage |-> stage, exit |-> exit, exc |-> exc, dirs |-> ds, file |-> f, out |-> out,
     config |-> config, calls |-> calls, consulted |-> consulted, wrote |-> wrote]

\* The run once the configuration block is through: the action, then exit
Complete(sd, h, e) ==
    Outcome("action", IF e.exc = "none" THEN 0 ELSE 1, e.exc, sd.dirs, h.file,
            h.out \o e.out, h.config, e.calls, h.consulted, h.wrote)

\* The statements of main() in order, each with the result of the one before:
\* p of parse_args, sd of setup_directories, h of the configuration block
Run(a, ds, f, p, sd, h) ==
    IF ~p.ok
    THEN Outcome("parse_args", 2, "SystemExit", ds, f, p.out, None, <<>>, {}, <<>>)
    ELSE IF sd.err # "none"
         THEN Outcome("setup_directories", 1, sd.err, sd.dirs, f, <<>>, None, <<>>, {}, <<>>)
         ELSE IF ~h.go
              THEN Outcome("configuration", 1, h.exc, sd.dirs, h.file, h.out, None, <<>>,
                           h.consulted, h.wrote)
              ELSE Complete(sd, h, ExecuteAction(a, h.config))

\* One run of main() with arguments a on directories ds, default file f, custom
\* file cust and clock reading now
main(a, ds, f, cust, now) ==
    Run(a, ds, f, parse_args(a), setup_directories(ds), HandleConfiguration(a, f, cust, now))

-----------------------------------------------------------------------------
(* Values the variables of the other specifications rest at *)

Idle == [op |-> "idle"]
NoRun == [ran |-> FALSE]

-----------------------------------------------------------------------------
(* SpecParse: direct calls of parse_instruments *)

InstrAlphabet == {"A", "B", " ", ","}

RECURSIVE Strings(_, _)
\* The strings over alphabet of length at most n
Strings(alphabet, n) ==
    IF n = 0
    THEN {<<>>}
    ELSE LET shorter == Strings(alphabet, n - 1)
         IN  shorter \cup {Append(s, c) : s \in shorter, c \in alphabet}

ExampleInstruments == <<"A", ",", " ", "B", " ", ",", "C">>

InitParse ==
    /\ dirs = AllDirs
    /\ file = Absent
    /\ custom = Absent
    /\ clock = 0
    /\ res = NoRun
    /\ origin = "none"
    /\ \E s \in Strings(InstrAlphabet, MaxLen) \cup {ExampleInstruments} :
            fn = [op |-> "input", arg |-> s]

CallParseInstruments ==
    /\ fn.op = "input"
    /\ fn' = [op |-> "parse_instruments", arg |-> fn.arg,
              ret |-> parse_instruments(fn.arg)]
    /\ UNCHANGED <<dirs, file, custom, clock, res, origin>>

NextParse == CallParseInstruments

SpecParse == InitParse /\ [][NextParse]_vars

-----------------------------------------------------------------------------
(* SpecRoundTrip: create_config, then save_config, then load_config *)

ThemeAlphabet == {"a", "\"", "\\", NonAscii}
InstrNames == {<<>>, <<"\"", ",">>}
SampleSizes == {-7, 0, DefaultSample, 100}

RECURSIVE Lists(_, _)
Lists(items, n) ==
    IF n = 0
    THEN {<<>>}
    ELSE LET shorter == Lists(items, n - 1)
         IN  shorter \cup {Append(l, x) : l \in shorter, x \in items}

InitRoundTrip ==
    /\ dirs = AllDirs
    /\ file = Absent
    /\ custom = Absent
    /\ clock \in {0, MaxClock}
    /\ res = NoRun
    /\ origin = "none"
    /\ \E theme \in Strings(ThemeAlphabet, MaxThemeLen),
          instruments \in Lists(InstrNames, MaxInstr),
          sample \in SampleSizes :
            fn = [op |-> "input", theme |-> theme, instruments |-> instruments,
                  sample_size |-> sample]

CallCreateAndSave ==
    /\ fn.op = "input"
    /\ LET config == create_config(fn.theme, fn.instruments, fn.sample_size, clock)
       IN  /\ file' = save_config(config)
           /\ origin' = "program"
           /\ fn' = [op |-> "saved", theme |-> fn.theme, instruments |-> fn.instruments,
                     sample_size |-> fn.sample_size, created |-> config]
    /\ UNCHANGED <<dirs, custom, clock, res>>

CallLoad ==
    /\ fn.op = "saved"
    /\ fn' = [op |-> "loaded", theme |-> fn.theme, instruments |-> fn.instruments,
              sample_size |-> fn.sample_size, created |-> fn.created,
              loaded |-> load_config(file)]
    /\ UNCHANGED <<dirs, file, custom, clock, res, origin>>

NextRoundTrip == CallCreateAndSave \/ CallLoad

SpecRoundTrip == InitRoundTrip /\ [][NextRoundTrip]_vars

-----------------------------------------------------------------------------
(* SpecDirs: direct calls of setup_directories in a row *)

InitDirs ==
    /\ dirs \in {ds \in SUBSET AllDirs : TreeClosed(ds)}
    /\ file = Absent
    /\ custom = Absent
    /\ clock = 0
    /\ res = NoRun
    /\ origin = "none"
    /\ fn = [op |-> "start", calls |-> 0, err |-> "none", before |-> dirs]

CallSetupDirectories ==
    /\ fn.op \in {"start", "setup_directories"}
    /\ fn.calls < MaxCalls
    /\ fn.err = "none"
    /\ LET r == setup_directories(dirs)
       IN  /\ dirs' = r.dirs
           /\ fn' = [op |-> "setup_directories", calls |-> fn.calls + 1, err |-> r.err,
                     before |-> dirs]
    /\ UNCHANGED <<file, custom, clock, res, origin>>

NextDirs == CallSetupDirectories

SpecDirs == InitDirs /\ [][NextDirs]_vars

-----------------------------------------------------------------------------
(* Spec: runs of the program, one after the other, and what happens around them *)

Theme == <<"T", "h">>
Instruments == <<"E", ",", " ", "E">>
Bogus == <<"b", "o", "g", "u", "s">>

Args ==
    [theme : {None, JStr(<<>>), JStr(Theme)},
     instruments : {None, JStr(<<>>), JStr(Instruments)},
     sample : {DefaultSample, 100},
     phase : {None, JStr(P_write), JStr(Bogus)},
     full : BOOLEAN,
     status : BOOLEAN,
     config : {None, JStr(<<>>), JStr(CUSTOM_PATH)}]

\* The record with the status of phase set: what an operator's edit leaves
WithStatus(config, phase, status) ==
    JObj([i \in 1..Len(config.v) |->
            IF config.v[i][1] = K_phases
            THEN <<K_phases,
                   JObj([j \in 1..Len(config.v[i][2].v) |->
                            IF config.v[i][2].v[j][1] = phase
                            THEN PhaseEntry(phase, status)
                            ELSE config.v[i][2].v[j]])>>
            ELSE config.v[i]])

S_done == <<"d", "o", "n", "e">>

\* A record someone else prepared for --config
CustomRecord ==
    WithStatus(create_config(<<"C">>, << <<"X">> >>, 7, 0), P_research, S_done)

Init ==
    /\ dirs = {}
    /\ file = Absent
    /\ custom \in {Absent, Present(json_dump(JNull)), Present(json_dump(CustomRecord))}
    /\ clock = 0
    /\ res = NoRun
    /\ origin = "none"
    /\ fn = Idle

\* What the run with outcome m leaves behind
Commit(a, m) ==
    /\ dirs' = m.dirs
    /\ file' = m.file
    /\ origin' = IF m.wrote # <<>> THEN "program" ELSE origin
    /\ res' = [ran |-> TRUE, args |-> a, now |-> clock, before |-> file,
               dirsBefore |-> dirs, stage |-> m.stage, exit |-> m.exit,
               exc |-> m.exc, out |-> m.out, config |-> m.config,
               calls |-> m.calls, consulted |-> m.consulted, wrote |-> m.wrote]

\* python run.py with arguments a, from start to exit
Main(a) ==
    /\ ~res.ran
    /\ Commit(a, main(a, dirs, file, custom, clock))
    /\ UNCHANGED <<custom, clock, fn>>

\* The process is gone; the operator is back at the prompt
ShellPrompt ==
    /\ res.ran
    /\ res' = NoRun
    /\ UNCHANGED <<dirs, file, custom, clock, origin, fn>>

\* Time passes between two runs
Tick ==
    /\ ~res.ran
    /\ clock < MaxClock
    /\ clock' = clock + 1
    /\ UNCHANGED <<dirs, file, custom, res, origin, fn>>

\* What a hand edit of kind `kind` makes of file f: [ok, file]
Edited(kind, f) ==
    CASE kind = "null" -> [ok |-> TRUE, file |-> Present(json_dump(JNull))]
      [] kind = "empty" -> [ok |-> TRUE, file |-> Present(json_dump(JObj(<<>>)))]
      [] kind = "advance" ->
            LET r == load_config(f)
            IN  IF r.exc = "none" /\ HasKey(r.v, K_phases)
                THEN [ok |-> TRUE,
                      file |-> Present(json_dump(WithStatus(r.v, P_write, S_done)))]
                ELSE [ok |-> FALSE, file |-> f]

\* Someone edits inputs/config.json by hand between two runs: the statuses of
\* a record are advanced, or the content is replaced by null or {}
ExternalEdit(kind) ==
    /\ ~res.ran
    /\ D_inputs \in dirs
    /\ Edited(kind, file).ok
    /\ Edited(kind, file).file # file
    /\ file' = Edited(kind, file).file
    /\ origin' = "external"
    /\ UNCHANGED <<dirs, custom, clock, res, fn>>

Next ==
    \/ \E a \in Args : Main(a)
    \/ ShellPrompt
    \/ Tick
    \/ \E kind \in {"advance", "null", "empty"} : ExternalEdit(kind)

Spec == Init /\ [][Next]_vars

-----------------------------------------------------------------------------
(* Claims about parse_instruments (SpecParse) *)

CommaCount(s) == Cardinality({i \in 1..Len(s) : s[i] = ","})

\* The index of the k-th comma of s; 0 for k = 0, Len(s) + 1 past the last one
CommaAt(s, k) ==
    IF k = 0
    THEN 0
    ELSE IF k > CommaCount(s)
         THEN Len(s) + 1
         ELSE CHOOSE i \in 1..Len(s) :
                  s[i] = "," /\ Cardinality({j \in 1..i : s[j] = ","}) = k

\* The text between the (k-1)-th and the k-th comma
Segment(s, k) == SubSeq(s, CommaAt(s, k - 1) + 1, CommaAt(s, k) - 1)

\* seg without the whitespace at its two ends
Trimmed(seg) ==
    LET solid == {i \in 1..Len(seg) : seg[i] \notin Whitespace}
    IN  IF solid = {}
        THEN <<>>
        ELSE SubSeq(seg, CHOOSE i \in solid : \A j \in solid : i <= j,
                         CHOOSE i \in solid : \A j \in solid : i >= j)

\* C8: parse_instruments returns one token per comma-delimited segment of its
\* argument (number of commas + 1 tokens, empty ones kept, duplicates kept), in
\* input order, each the segment with its surrounding whitespace removed; and
\* parse_instruments("A, B ,C") = ["A", "B", "C"].
C8_ParseInstruments ==
    fn.op = "parse_instruments" =>
        /\ Len(fn.ret) = CommaCount(fn.arg) + 1
        /\ \A k \in 1..Len(fn.ret) : fn.ret[k] = Trimmed(Segment(fn.arg, k))
        /\ (fn.arg = ExampleInstruments => fn.ret = << <<"A">>, <<"B">>, <<"C">> >>)

\* A call whose argument has an empty token, a repeated token and padding
C8_Witness ==
    /\ fn.op = "parse_instruments"
    /\ fn.arg = <<"A", ",", ",">>
    /\ fn.ret = << <<"A">>, <<>>, <<>> >>

-----------------------------------------------------------------------------
(* Claims about the round trip (SpecRoundTrip) *)

\* C1: create_config, save_config, load_config in a row return a record equal
\* to the created one, field for field: the theme, the instruments in the same
\* order with duplicates kept, the sample size, the created stamp and the
\* phases map.
C1_RoundTrip ==
    fn.op = "loaded" =>
        /\ fn.loaded.exc = "none"
        /\ fn.loaded.v = fn.created
        /\ GetItem(fn.loaded.v, K_theme) = JStr(fn.theme)
        /\ GetItem(fn.loaded.v, K_instruments)
              = JList([i \in 1..Len(fn.instruments) |-> JStr(fn.instruments[i])])
        /\ GetItem(fn.loaded.v, K_sample_size) = JInt(fn.sample_size)
        /\ GetItem(fn.loaded.v, K_created) = JStr(isoformat(clock))
        /\ GetItem(fn.loaded.v, K_phases) = GetItem(fn.created, K_phases)

\* A round trip of a theme with a quote and a backslash, a repeated instrument
\* and a negative sample size
C1_Witness ==
    /\ fn.op = "loaded"
    /\ fn.theme = <<"\"", "\\">>
    /\ fn.instruments = << <<"\"", ",">>, <<"\"", ",">> >>
    /\ fn.sample_size = -7
    /\ fn.loaded.v = fn.created

-----------------------------------------------------------------------------
(* Claims about setup_directories (SpecDirs) *)

\* C9: from any tree of the seven directories, one call of setup_directories
\* ends with all seven existing and no error, and a second call in a row
\* raises no error and leaves the tree as the first call left it.
C9_SetupIdempotent ==
    fn.op = "setup_directories" =>
        /\ fn.err = "none"
        /\ ContractDirs \subseteq dirs
        /\ fn.before \subseteq dirs
        /\ (fn.calls >= 2 => dirs = fn.before)

\* A second call in a row, on the tree the first call completed
C9_Witness ==
    /\ fn.op = "setup_directories"
    /\ fn.calls = 2
    /\ fn.err = "none"
    /\ dirs = fn.before
    /\ ContractDirs \subseteq dirs

-----------------------------------------------------------------------------
(* Claims about runs of the program (Spec) *)

HasLine(msg) == \E i \in 1..Len(res.out) : res.out[i].msg = msg

Accepted(a) == a.phase = None \/ a.phase.v \in Range(PHASES)

\* Both --theme and --instruments are given and neither is the empty string
Creates(a) == a.theme \notin {None, JStr(<<>>)} /\ a.instruments \notin {None, JStr(<<>>)}

\* The run gets a configuration (or, for --status, the lack of one) to act on
Obtains(a, f, cust) ==
    \/ Creates(a)
    \/ /\ ~Creates(a)
       /\ a.config \notin {None, JStr(<<>>)}
       /\ cust.exists
       /\ json_load(cust.text).ok
    \/ /\ ~Creates(a)
       /\ a.config \in {None, JStr(<<>>)}
       /\ \/ f.exists /\ json_load(f.text).ok
          \/ ~f.exists /\ a.status

InstructionTitles ==
    {"PHASE 1: RESEARCH", "PHASE 2: FEASIBILITY - RESEARCH DIRECTION",
     "PHASE 3: DATA SIMULATION", "PHASE 4: FEASIBILITY - DATA VALIDATION",
     "PHASE 5: DATA ANALYSIS", "PHASE 6: THESIS WRITING"}

NoInstructions == \A i \in 1..Len(res.out) : res.out[i].msg \notin InstructionTitles

MissingLine == Line("Error: No configuration found at", JStr(CONFIG_PATH))

C3_MissingConfiguration ==
    res.ran /\ ~res.before.exists /\ Accepted(res.args) /\ res.args.config = None =>
        /\ (res.args.status /\ (res.args.theme = None \/ res.args.instruments = None) =>
                /\ res.exit = 0
                /\ res.out = <<Line("No configuration found. Initialize with --theme and --instruments.",
                                    None)>>)
        /\ (~res.args.status /\ res.args.theme = None /\ res.args.instruments = None =>
                /\ res.exit # 0
                /\ MissingLine \in Range(res.out)
                /\ NoInstructions
                /\ ~HasLine("THESIS DRAFT GENERATOR")
                /\ res.calls = <<>>)

\* --phase write --full with nothing at the default path
C3_Witness ==
    /\ res.ran
    /\ ~res.before.exists
    /\ res.args.phase = JStr(P_write)
    /\ res.args.full
    /\ ~res.args.status
    /\ res.args.theme = None /\ res.args.instruments = None /\ res.args.config = None
    /\ res.exit = 1
    /\ res.out[1] = MissingLine

NoFlags(a) ==
    /\ a.theme = None /\ a.instruments = None /\ a.config = None /\ a.phase = None
    /\ ~a.full /\ ~a.status /\ a.sample = DefaultSample

\* C4 as stated: a run with no flags prints the top-level help, whether the
\* configuration file is absent or present.
C4_Original == res.ran /\ NoFlags(res.args) => HasLine("usage: run.py [-h]")

\* C4 amended: a run with no flags prints the top-level help only when the
\* default file exists and holds an empty JSON value (null, {}); with no file
\* it prints the configuration-missing error and exits 1; with a record in
\* the file it prints the workflow overview.
C4_NoFlags ==
    res.ran /\ NoFlags(res.args) =>
        IF ~res.before.exists
        THEN /\ res.exit = 1
             /\ res.out[1] = MissingLine
             /\ ~HasLine("usage: run.py [-h]")
        ELSE IF Truthy(json_load(res.before.text).v)
             THEN /\ res.exit = 0
                  /\ HasLine("THESIS DRAFT GENERATOR")
                  /\ ~HasLine("usage: run.py [-h]")
                  /\ res.calls = <<Call("print_full_workflow", json_load(res.before.text).v)>>
             ELSE /\ res.exit = 0
                  /\ res.out = <<Line("usage: run.py [-h]", None)>>

\* No flags, and the overview of the record on disk comes out
C4_Witness ==
    /\ res.ran
    /\ NoFlags(res.args)
    /\ res.before.exists
    /\ HasKey(json_load(res.before.text).v, K_theme)
    /\ HasLine("THESIS DRAFT GENERATOR")
    /\ ~HasLine("usage: run.py [-h]")

\* The six phases, each pending, in order
SixPending ==
    JObj(<< <<P_research, JObj(<< <<K_status, JStr(S_pending)>> >>)>>,
            <<P_feasibility_research, JObj(<< <<K_status, JStr(S_pending)>> >>)>>,
            <<P_simulate, JObj(<< <<K_status, JStr(S_pending)>> >>)>>,
            <<P_feasibility_data, JObj(<< <<K_status, JStr(S_pending)>> >>)>>,
            <<P_analyze, JObj(<< <<K_status, JStr(S_pending)>> >>)>>,
            <<P_write, JObj(<< <<K_status, JStr(S_pending)>> >>)>> >>)

\* What load_config returned is a record with the six phases pending
LoadedPending(r) ==
    /\ r.exc = "none"
    /\ HasKey(r.v, K_phases)
    /\ GetItem(r.v, K_phases) = SixPending

\* C5: the record create_config returns maps exactly the six phases, in
\* order, to status "pending", and so does every record the program has
\* persisted, as long as nobody else edits the file.
C5_PhasesPending ==
    /\ res.ran =>
          \A i \in 1..Len(res.wrote) :
              HasKey(res.wrote[i], K_phases) /\ GetItem(res.wrote[i], K_phases) = SixPending
    /\ origin = "program" => file.exists /\ LoadedPending(load_config(file))

\* A record the program saved earlier, still on disk after a later run that
\* only showed the status
C5_Witness ==
    /\ res.ran
    /\ res.args.status
    /\ res.wrote = <<>>
    /\ origin = "program"
    /\ file = res.before
    /\ GetItem(load_config(file).v, K_phases) = SixPending

\* The record a run with arguments a at clock reading now creates, by field
FreshFrom(rec, a, now) ==
    /\ rec.t = "obj"
    /\ Len(rec.v) = 5
    /\ rec.v[1] = <<K_theme, a.theme>>
    /\ rec.v[2][1] = K_instruments
    /\ rec.v[2][2].t = "list"
    /\ Len(rec.v[2][2].v) = CommaCount(a.instruments.v) + 1
    /\ \A k \in 1..Len(rec.v[2][2].v) :
          rec.v[2][2].v[k] = JStr(Trimmed(Segment(a.instruments.v, k)))
    /\ rec.v[3] = <<K_sample_size, JInt(a.sample)>>
    /\ rec.v[4] = <<K_created, JStr(isoformat(now))>>
    /\ rec.v[5] = <<K_phases, SixPending>>

\* What load_config returned is that fresh record
LoadedFresh(r, a, now) == r.exc = "none" /\ FreshFrom(r.v, a, now)

\* C6 as stated: a run given both --theme and --instruments replaces the
\* persisted record wholly by a fresh one; every other run leaves it as it was.
\* (Read on the command lines the argument parser accepts.)
C6_Original ==
    res.ran /\ Accepted(res.args) =>
        IF res.args.theme # None /\ res.args.instruments # None
        THEN file.exists /\ LoadedFresh(load_config(file), res.args, res.now)
        ELSE file = res.before

\* C6 amended: a run the argument parser accepts, given a non-empty --theme and
\* a non-empty --instruments, replaces the persisted record wholly by a fresh
\* one (its theme, instruments and sample size, created at the time of the
\* run, all phases pending, nothing of the previous record kept); every other
\* run, an empty --theme or --instruments included, leaves the file as it was
\* and never deletes it.
C6_Overwrite ==
    res.ran =>
        IF Creates(res.args) /\ Accepted(res.args)
        THEN /\ file.exists
             /\ LoadedFresh(load_config(file), res.args, res.now)
             /\ res.wrote = <<create_config(res.args.theme.v,
                                            parse_instruments(res.args.instruments.v),
                                            res.args.sample, res.now)>>
        ELSE /\ file = res.before
             /\ res.wrote = <<>>

\* A record with an advanced phase, created earlier, is overwritten
C6_Witness ==
    /\ res.ran
    /\ Creates(res.args)
    /\ res.before.exists
    /\ HasKey(load_config(res.before).v, K_phases)
    /\ GetItem(load_config(res.before).v, K_phases) # SixPending
    /\ GetItem(load_config(res.before).v, K_created) # JStr(isoformat(res.now))
    /\ FreshFrom(load_config(file).v, res.args, res.now)

\* C7 as stated: whatever the other flags, a run given --config PATH acts on
\* the record read from PATH and does not consult the default file.  (Read on
\* the command lines the argument parser accepts, with a non-empty PATH.)
C7_Original ==
    res.ran /\ res.args.config \notin {None, JStr(<<>>)} /\ Accepted(res.args) =>
        /\ CONFIG_PATH \notin res.consulted
        /\ MissingLine \notin Range(res.out)
        /\ (res.stage = "action" =>
                custom.exists /\ res.config = json_load(custom.text).v)

\* The run acted on r, the result of json.load on the file at PATH
ActsOn(r) ==
    IF r.ok
    THEN /\ res.stage = "action"
         /\ res.config = r.v
         /\ (~res.args.status /\ res.args.phase = None /\ (res.args.full \/ Truthy(r.v)) =>
                res.calls = <<Call("print_full_workflow", r.v)>>)
         /\ (res.args.status /\ Truthy(r.v) => res.out[1].arg.v[1] = GetItem(r.v, K_theme))
    ELSE /\ res.stage = "configuration"
         /\ res.exc = "JSONDecodeError"
         /\ res.exit = 1
         /\ res.out = <<>>

\* C7 amended: a run the argument parser accepts, given a non-empty --config
\* PATH and not given both a non-empty --theme and a non-empty --instruments,
\* reads PATH and nothing else; when PATH holds JSON, the requested action
\* (--status, --full, the default overview) gets the value read from it; when
\* PATH is missing the run ends on the uncaught FileNotFoundError, not on the
\* configuration-missing message.  The state of the default file plays no part.
C7_CustomConfig ==
    res.ran /\ Accepted(res.args) /\ res.args.config \notin {None, JStr(<<>>)}
            /\ ~Creates(res.args) =>
        /\ res.consulted = {res.args.config.v}
        /\ MissingLine \notin Range(res.out)
        /\ file = res.before
        /\ IF custom.exists
           THEN ActsOn(json_load(custom.text))
           ELSE /\ res.stage = "configuration"
                /\ res.exc = "FileNotFoundError"
                /\ res.exit = 1
                /\ res.out = <<>>

\* --config PATH --status with nothing at the default path: the status of the
\* record at PATH
C7_Witness ==
    /\ res.ran
    /\ res.args.config = JStr(CUSTOM_PATH)
    /\ res.args.status
    /\ ~res.before.exists
    /\ custom = Present(json_dump(CustomRecord))
    /\ res.config = CustomRecord
    /\ res.exit = 0
    /\ res.out[1].arg.v[1] = JStr(<<"C">>)

\* C10: in every run of main, whatever the flags and the JSON content of the
\* configuration file, print_full_workflow is called only with a non-null
\* configuration.
C10_OverviewGuarded ==
    res.ran =>
        \A i \in 1..Len(res.calls) :
            res.calls[i].fn = "print_full_workflow" => res.calls[i].arg # None

====
